---- MODULE Spec2Model ----
\* A model of bot.py: the duas.org scraper (scrape_dua), the two slide
\* builders (create_pptx_single_line, create_pptx_three_lines) and the
\* conversation handlers (start, receive_link, receive_image, cancel).
\*
\* Text is a sequence of one-character strings, so that str.strip() and
\* str.replace() are computed rather than assumed.
EXTENDS Integers, Sequences, FiniteSets, TLC

\* ---------------------------------------------------------------- bounds

\* Longest list of 'Ara' (and of 'Tra') elements in a page of SpecScrape.
MaxElems == 4

\* Longest line sequence handed to the slide builders in SpecSlides.
MaxLines == 7

VARIABLES
    pc,         \* position of the pure pipelines (SpecScrape, SpecSlides)
    response,   \* SpecScrape: what requests.get(url) produced
    scraped,    \* SpecScrape: outcome of scrape_dua
    dua_lines,  \* SpecSlides: the line sequence handed to the builders
    bg_image,   \* SpecSlides: the background file the builders are given
    prs_single, \* SpecSlides: slides of create_pptx_single_line
    prs_three,  \* SpecSlides: slides of create_pptx_three_lines
    state,      \* Spec: conversation state of each user
    user_data,  \* Spec: context.user_data of each user
    files,      \* Spec: the working directory, path -> file
    update      \* Spec: the update handled last and what its handler did

vars == <<pc, response, scraped, dua_lines, bg_image, prs_single, prs_three,
          state, user_data, files, update>>

pureVars == <<pc, response, scraped, dua_lines, bg_image, prs_single, prs_three>>

sessionVars == <<state, user_data, files, update>>

\* ------------------------------------------------------------------ text

Min(a, b) == IF a < b THEN a ELSE b

RECURSIVE LStrip(_)
LStrip(s) == IF s # <<>> /\ Head(s) = " " THEN LStrip(Tail(s)) ELSE s

RECURSIVE RStrip(_)
RStrip(s) ==
    IF s # <<>> /\ s[Len(s)] = " " THEN RStrip(SubSeq(s, 1, Len(s) - 1)) ELSE s

\* str.strip(): leading and trailing whitespace removed, the inside kept.
Strip(s) == RStrip(LStrip(s))

\* str.replace(' ', '_')
Replace(s) == [i \in 1..Len(s) |-> IF s[i] = " " THEN "_" ELSE s[i]]

\* element.get_text(strip=True) of an element holding one text node.
get_text(elem) == Strip(elem)

\* The placeholder title of scrape_dua and of user_data.get('title', 'Dua').
Dua == <<"D", "u", "a">>

\* ------------------------------------------------------------ scrape_dua

\* class DuaLine: both fields are stripped by the constructor.
DuaLine(arabic, translation) ==
    [arabic |-> Strip(arabic), translation |-> Strip(translation)]

\* A line is appended when either text alone is non-empty.
BothNonEmpty_either(arabic_text, translation_text) ==
    arabic_text # <<>> \/ translation_text # <<>>

\* `if arabic_text and translation_text`
BothNonEmpty(arabic_text, translation_text) ==
    arabic_text # <<>> /\ translation_text # <<>>

\* The translation index follows the number of lines kept so far, so a
\* dropped pair shifts every later pairing.
RECURSIVE MatchLoop_resync(_, _, _, _)
MatchLoop_resync(arabic_divs, translation_divs, i, acc) ==
    IF i > Min(Len(arabic_divs), Len(translation_divs))
    THEN acc
    ELSE LET arabic_text == get_text(arabic_divs[i])
             translation_text == get_text(translation_divs[Len(acc) + 1])
         IN  MatchLoop_resync(arabic_divs, translation_divs, i + 1,
                 IF BothNonEmpty(arabic_text, translation_text)
                 THEN Append(acc, DuaLine(arabic_text, translation_text))
                 ELSE acc)

\* for i in range(min(len(arabic_divs), len(translation_divs))): ...
\* (i is 1-based here), acc is dua_lines so far.
RECURSIVE MatchLoop(_, _, _, _)
MatchLoop(arabic_divs, translation_divs, i, acc) ==
    IF i > Min(Len(arabic_divs), Len(translation_divs))
    THEN acc
    ELSE LET arabic_text == get_text(arabic_divs[i])
             translation_text == get_text(translation_divs[i])
         IN  MatchLoop(arabic_divs, translation_divs, i + 1,
                 IF BothNonEmpty(arabic_text, translation_text)
                 THEN Append(acc, DuaLine(arabic_text, translation_text))
                 ELSE acc)

\* title_elem.get_text(strip=True) if title_elem else "Dua"; soup.ptitle is
\* the sequence of <ptitle> elements and soup.find('ptitle') its first.
Title(soup) == IF soup.ptitle # <<>> THEN get_text(Head(soup.ptitle)) ELSE Dua

Returned(lines, title) == [raised |-> FALSE, dua_lines |-> lines, title |-> title]

Raised == [raised |-> TRUE, dua_lines |-> <<>>, title |-> <<>>]

\* The except clause returns an empty result instead of re-raising.
scrape_dua_swallow(resp) ==
    IF resp.ok
    THEN Returned(MatchLoop(resp.soup.Ara, resp.soup.Tra, 1, <<>>), Title(resp.soup))
    ELSE Returned(<<>>, Dua)

\* scrape_dua(url), given what requests.get / raise_for_status / the parser
\* did with the url: resp.ok is FALSE when any of them raised, and the except
\* clause logs and re-raises.
scrape_dua(resp) ==
    IF resp.ok
    THEN Returned(MatchLoop(resp.soup.Ara, resp.soup.Tra, 1, <<>>), Title(resp.soup))
    ELSE Raised

\* ---------------------------------------------------------- SpecScrape

\* Raw text nodes: whitespace only, and two texts with whitespace around.
RawTexts == { <<" ">>, <<" ", "a">>, <<"b", " ">> }

RawTitles == { <<" ", "T", " ", "t">> }

SeqsUpTo(S, n) == UNION { [1..k -> S] : k \in 0..n }

Soups ==
    [Ara : SeqsUpTo(RawTexts, MaxElems),
     Tra : SeqsUpTo(RawTexts, MaxElems),
     ptitle : SeqsUpTo(RawTitles, 1)]

NoSoup == [Ara |-> <<>>, Tra |-> <<>>, ptitle |-> <<>>]

\* ------------------------------------------------------- slide builders

\* A file of the working directory, known by the photo it holds (resizing
\* keeps the photo); NoFile is a path at which nothing exists.
NoFile == [exists |-> FALSE, photo |-> "none"]

\* `if bg_image_path and os.path.exists(bg_image_path): add_picture(...)`:
\* the picture placed on the slide, "none" when the file does not exist.
Picture(bg_file) == IF bg_file.exists THEN bg_file.photo ELSE "none"

\* The paragraph of the Arabic text box: p.text = line.arabic, RIGHT, bold.
ArabicParagraph(line, size) ==
    [text |-> line.arabic, alignment |-> "RIGHT", size |-> size, bold |-> TRUE]

\* The English paragraph is filled from the Arabic field.
EnglishParagraph_arabic(line, size) ==
    [text |-> line.arabic, alignment |-> "LEFT", size |-> size, bold |-> FALSE]

\* The paragraph of the English text box: p.text = line.translation, LEFT;
\* font.bold is never set, so the paragraph is not bold.
EnglishParagraph(line, size) ==
    [text |-> line.translation, alignment |-> "LEFT", size |-> size, bold |-> FALSE]

\* One slide of create_pptx_single_line: two text boxes, one paragraph each.
SingleLineSlide(line, bg_file) ==
    [picture |-> Picture(bg_file),
     arabic_frame |-> <<ArabicParagraph(line, 28)>>,
     english_frame |-> <<EnglishParagraph(line, 24)>>]

\* create_pptx_single_line: `for line in dua_lines`, one slide per line.
create_pptx_single_line(lines, title, bg_file) ==
    [n \in 1..Len(lines) |-> SingleLineSlide(lines[n], bg_file)]

\* The loop also runs for i = stop.
RECURSIVE range_inclusive(_, _, _)
range_inclusive(i, stop, step) ==
    IF i > stop THEN <<>> ELSE <<i>> \o range_inclusive(i + step, stop, step)

\* range(i, stop, step), step > 0.
RECURSIVE range(_, _, _)
range(i, stop, step) ==
    IF i >= stop THEN <<>> ELSE <<i>> \o range(i + step, stop, step)

\* The slice takes two lines, dua_lines[i:i+2].
Slice3_short(lines, i) == SubSeq(lines, i + 1, Min(i + 2, Len(lines)))

\* dua_lines[i:i+3] (i is 0-based, the slice is clipped to the list).
Slice3(lines, i) == SubSeq(lines, i + 1, Min(i + 3, Len(lines)))

\* One slide of create_pptx_three_lines: the two `for idx, line in
\* enumerate(current_lines)` loops give each text box one paragraph per line.
ThreeLinesSlide(current_lines, bg_file) ==
    [picture |-> Picture(bg_file),
     arabic_frame |->
         [idx \in 1..Len(current_lines) |-> ArabicParagraph(current_lines[idx], 22)],
     english_frame |->
         [idx \in 1..Len(current_lines) |-> EnglishParagraph(current_lines[idx], 18)]]

\* create_pptx_three_lines: `for i in range(0, len(dua_lines), 3)`.
create_pptx_three_lines(lines, title, bg_file) ==
    LET starts == range(0, Len(lines), 3)
    IN  [n \in 1..Len(starts) |-> ThreeLinesSlide(Slice3(lines, starts[n]), bg_file)]

\* ---------------------------------------------------------- the handlers

Users == {1, 2}

\* Conversation states; END is ConversationHandler.END (no conversation).
WAITING_LINK == "WAITING_LINK"

WAITING_IMAGE == "WAITING_IMAGE"

END == "END"

\* context.user_data, a dict: `keys` are the keys it holds.
NoData == [keys |-> {}, dua_lines |-> <<>>, title |-> <<>>]

\* context.user_data['dua_lines'] = dua_lines; context.user_data['title'] = title
Store(lines, title) ==
    [keys |-> {"dua_lines", "title"}, dua_lines |-> lines, title |-> title]

\* context.user_data.get('dua_lines', [])
GetLines(ud) == IF "dua_lines" \in ud.keys THEN ud.dua_lines ELSE <<>>

\* context.user_data.get('title', 'Dua')
GetTitle(ud) == IF "title" \in ud.keys THEN ud.title ELSE Dua

\* One file name for every user.
image_path_shared(uid) == <<"temp_bg_", 1, ".jpg">>

\* image_path = f"temp_bg_{update.effective_user.id}.jpg"
image_path(uid) == <<"temp_bg_", uid, ".jpg">>

Paths == { <<"temp_bg_", u, ".jpg">> : u \in Users }

\* What a handler did: the user's user_data and the files afterwards, the
\* replies and documents delivered, the awaited or library calls that raised,
\* whether an exception left the handler, and the state it returned.
Outcome(ud, fs, replies, documents, failed, raised, ret) ==
    [ud |-> ud, files |-> fs, replies |-> replies, documents |-> documents,
     failed |-> failed, raised |-> raised, ret |-> ret]

\* start: one reply, then WAITING_LINK.
start(ud, fs, fails) ==
    IF "reply_welcome" \in fails
    THEN Outcome(ud, fs, <<>>, <<>>, {"reply_welcome"}, TRUE, END)
    ELSE Outcome(ud, fs, <<"welcome">>, <<>>, {}, FALSE, WAITING_LINK)

\* cancel: user_data.clear() comes before the reply.
cancel(ud, fs, fails) ==
    IF "reply_cancelled" \in fails
    THEN Outcome(NoData, fs, <<>>, <<>>, {"reply_cancelled"}, TRUE, END)
    ELSE Outcome(NoData, fs, <<"cancelled">>, <<>>, {}, FALSE, END)

HTTPS == "https://www.duas.org/"

HTTP == "http://www.duas.org/"

\* not (not url.startswith('https://www.duas.org/') and
\*      not url.startswith('http://www.duas.org/')); a url is its prefix
\* followed by the page name.
ValidUrl(url) == url # <<>> /\ (Head(url) = HTTPS \/ Head(url) = HTTP)

\* Every scrape result counts as non-empty.
NoLines_never(lines) == FALSE

\* `if not dua_lines`
NoLines(lines) == lines = <<>>

\* The try block of receive_link after scrape_dua returned r.
LinkTry(ud, fs, r, fails) ==
    IF r.raised
    THEN Outcome(ud, fs, <<>>, <<>>, {}, TRUE, WAITING_LINK)
    ELSE IF NoLines(r.dua_lines)
    THEN IF "reply_empty" \in fails
         THEN Outcome(ud, fs, <<>>, <<>>, {"reply_empty"}, TRUE, WAITING_LINK)
         ELSE Outcome(ud, fs, <<"empty_result">>, <<>>, {}, FALSE, WAITING_LINK)
    ELSE IF "reply_found" \in fails
         THEN Outcome(Store(r.dua_lines, r.title), fs, <<>>, <<>>,
                      {"reply_found"}, TRUE, WAITING_LINK)
         ELSE Outcome(Store(r.dua_lines, r.title), fs, <<"found">>, <<>>,
                      {}, FALSE, WAITING_IMAGE)

\* An except clause: `tried` is what the try block did; when it raised, the
\* clause sends `reply` and returns `ret`, and an exception raised by that
\* reply leaves the handler.
Except(tried, reply, ret, fails) ==
    IF ~tried.raised
    THEN tried
    ELSE IF "reply_error" \in fails
    THEN [tried EXCEPT !.failed = @ \cup {"reply_error"}]
    ELSE [tried EXCEPT !.replies = Append(@, reply), !.raised = FALSE, !.ret = ret]

\* receive_link: the url check and the first reply are outside the try.
\* `failed` also names requests.get when it raised inside scrape_dua.
receive_link(text, ud, fs, resp, fails) ==
    LET url == Strip(text)
    IN  IF ~ValidUrl(url)
        THEN IF "reply_invalid" \in fails
             THEN Outcome(ud, fs, <<>>, <<>>, {"reply_invalid"}, TRUE, WAITING_LINK)
             ELSE Outcome(ud, fs, <<"invalid_link">>, <<>>, {}, FALSE, WAITING_LINK)
        ELSE IF "reply_scraping" \in fails
        THEN Outcome(ud, fs, <<>>, <<>>, {"reply_scraping"}, TRUE, WAITING_LINK)
        ELSE LET tried == LinkTry(ud, fs, scrape_dua(resp), fails)
                 done == Except(tried, "error_scraping", WAITING_LINK, fails)
             IN  [done EXCEPT !.replies = <<"scraping">> \o @,
                              !.failed = @ \cup (IF resp.ok THEN {} ELSE {"requests_get"})]

\* The calls of receive_image's try block that can raise, in program order:
\* bot.get_file, file.download_to_drive, Image.open/resize/save, the two
\* create_pptx_* / prs.save, the two reply_document, the last reply_text.
TrySites ==
    <<"get_file", "download_to_drive", "resize", "build_single", "build_three",
      "send_single", "send_three", "reply_done">>

\* The position in TrySites of the first call that raises; Len + 1 when none.
RECURSIVE FirstFailure(_, _)
FirstFailure(fails, i) ==
    IF i > Len(TrySites) \/ TrySites[i] \in fails THEN i ELSE FirstFailure(fails, i + 1)

\* filename=f"{title.replace(' ', '_')}_single_line.pptx" (or _three_lines)
Document(title, suffix, slides) ==
    [filename |-> Replace(title) \o <<suffix>>, slides |-> slides]

\* The try block of receive_image. k is the first call that raises: the file
\* is written once download_to_drive returned (k > 2) and holds the same
\* photo after Image.save (a download that raises leaves the path as it
\* was); a document is delivered once its
\* reply_document returned; os.remove and user_data.clear() run once both
\* documents were sent (k > 7), before the last reply.
ImageTry(uid, photo, ud, fs, fails) ==
    LET k == FirstFailure(fails, 1)
        path == image_path(uid)
        downloaded == [exists |-> TRUE, photo |-> photo[Len(photo)]]
        fs1 == IF k > 2 THEN [fs EXCEPT ![path] = downloaded] ELSE fs
        lines == GetLines(ud)
        title == GetTitle(ud)
        single == Document(title, "_single_line.pptx",
                           create_pptx_single_line(lines, title, fs1[path]))
        three == Document(title, "_three_lines.pptx",
                          create_pptx_three_lines(lines, title, fs1[path]))
        documents == (IF k > 6 THEN <<single>> ELSE <<>>)
                     \o (IF k > 7 THEN <<three>> ELSE <<>>)
        fs2 == IF k > 7 THEN [fs1 EXCEPT ![path] = NoFile] ELSE fs1
        ud2 == IF k > 7 THEN NoData ELSE ud
    IN  IF k > Len(TrySites)
        THEN Outcome(ud2, fs2, <<"done">>, documents, {}, FALSE, WAITING_LINK)
        ELSE Outcome(ud2, fs2, <<>>, documents, {TrySites[k]}, TRUE, WAITING_IMAGE)

\* receive_image: the photo check and the first reply are outside the try.
receive_image(uid, photo, ud, fs, fails) ==
    IF photo = <<>>
    THEN IF "reply_no_photo" \in fails
         THEN Outcome(ud, fs, <<>>, <<>>, {"reply_no_photo"}, TRUE, WAITING_IMAGE)
         ELSE Outcome(ud, fs, <<"no_photo">>, <<>>, {}, FALSE, WAITING_IMAGE)
    ELSE IF "reply_processing" \in fails
    THEN Outcome(ud, fs, <<>>, <<>>, {"reply_processing"}, TRUE, WAITING_IMAGE)
    ELSE LET tried == ImageTry(uid, photo, ud, fs, fails)
             done == Except(tried, "error_generating", WAITING_IMAGE, fails)
         IN  [done EXCEPT !.replies = <<"processing">> \o @]

\* ------------------------------------------------- Spec: the conversations

\* The pages of the site: kumayl.html has four pairs and a title, empty.html
\* has primary elements and no translation, short.html has four primary and
\* two translation elements, the second whitespace only, and no title.
Site(page) ==
    CASE page = "kumayl.html" ->
            [Ara |-> << <<" ", "a">>, <<"b", " ">>, <<" ", "a">>, <<"b", " ">> >>,
             Tra |-> << <<"b", " ">>, <<"b", " ">>, <<" ", "a">>, <<" ", "a">> >>,
             ptitle |-> << <<" ", "K", " ", "m", " ">> >>]
      [] page = "empty.html" ->
            [Ara |-> << <<" ", "a">> >>, Tra |-> <<>>, ptitle |-> <<>>]
      [] OTHER ->
            [Ara |-> << <<" ", "a">>, <<"b", " ">>, <<" ", "a">>, <<"b", " ">> >>,
             Tra |-> << <<"b", " ">>, <<" ">> >>,
             ptitle |-> <<>>]

\* update.message.text of the text messages sent to the bot.
Texts ==
    { <<" ", HTTPS, "kumayl.html">>, <<HTTP, "empty.html", " ">>,
      <<HTTPS, "short.html">>, <<"https://example.org/", "kumayl.html">> }

\* update.message.photo of the photo messages: the sizes of one photo.
Photos == { <<"thumbA", "photoA">>, <<"photoB">> }

\* The calls that raise while one update is handled: at most one call of the
\* handler's body, and possibly the reply of its except clause.
Failures(sites) ==
    { F \cup E : F \in {{}} \cup {{x} : x \in sites}, E \in {{}, {"reply_error"}} }

NoUpdate ==
    [user |-> 0, handler |-> "none", fetched |-> "none", extracted |-> "none",
     photo |-> "none", failed |-> {}, replies |-> <<>>, documents |-> <<>>,
     raised |-> FALSE, ret |-> END]

\* The library's part: the handler's outcome is applied to the user's own
\* user_data, and the conversation moves to the returned state unless an
\* exception left the handler, which leaves the state as it was. `fails` are
\* the calls chosen to raise: each of them is one the handler reached.
Dispatch(u, handler, out, fails, fetched, extracted, photo) ==
    /\ out.failed = fails
    /\ state' = [state EXCEPT ![u] = IF out.raised THEN @ ELSE out.ret]
    /\ user_data' = [user_data EXCEPT ![u] = out.ud]
    /\ files' = out.files
    /\ update' = [user |-> u, handler |-> handler, fetched |-> fetched,
                  extracted |-> extracted, photo |-> photo, failed |-> out.failed,
                  replies |-> out.replies, documents |-> out.documents,
                  raised |-> out.raised, ret |-> out.ret]
    /\ UNCHANGED pureVars

\* entry_points=[CommandHandler('start', start)]
Start(u) ==
    /\ state[u] = END
    /\ \E fails \in Failures({"reply_welcome"}) :
           Dispatch(u, "start", start(user_data[u], files, fails), fails,
                    "none", "none", "none")

\* WAITING_LINK: [MessageHandler(filters.TEXT & ~filters.COMMAND, receive_link)]
ReceiveLink(u) ==
    /\ state[u] = WAITING_LINK
    /\ \E text \in Texts,
          fails \in Failures({"reply_invalid", "reply_scraping", "requests_get",
                              "reply_empty", "reply_found"}) :
           LET url == Strip(text)
               reached == ValidUrl(url) /\ "reply_scraping" \notin fails
               resp == IF reached /\ "requests_get" \notin fails
                       THEN [ok |-> TRUE, soup |-> Site(url[2])]
                       ELSE [ok |-> FALSE, soup |-> NoSoup]
               r == scrape_dua(resp)
           IN  Dispatch(u, "receive_link",
                        receive_link(text, user_data[u], files, resp, fails), fails,
                        IF ~reached THEN "none" ELSE IF resp.ok THEN "ok" ELSE "failed",
                        IF ~reached \/ r.raised THEN "none"
                        ELSE IF r.dua_lines = <<>> THEN "empty" ELSE "lines",
                        "none")

\* WAITING_IMAGE: [MessageHandler(filters.PHOTO, receive_image)]
ReceiveImage(u) ==
    /\ state[u] = WAITING_IMAGE
    /\ \E photo \in Photos,
          fails \in Failures({"reply_processing"} \cup {TrySites[i] : i \in DOMAIN TrySites}) :
           Dispatch(u, "receive_image",
                    receive_image(u, photo, user_data[u], files, fails), fails,
                    "none", "none", photo[Len(photo)])

\* fallbacks=[CommandHandler('cancel', cancel)]
Cancel(u) ==
    /\ state[u] \in {WAITING_LINK, WAITING_IMAGE}
    /\ \E fails \in Failures({"reply_cancelled"}) :
           Dispatch(u, "cancel", cancel(user_data[u], files, fails), fails,
                    "none", "none", "none")

PureIdle ==
    /\ pc = "idle"
    /\ response = [ok |-> FALSE, soup |-> NoSoup]
    /\ scraped = Raised
    /\ dua_lines = <<>>
    /\ bg_image = NoFile
    /\ prs_single = <<>>
    /\ prs_three = <<>>

SessionIdle ==
    /\ state = [u \in Users |-> END]
    /\ user_data = [u \in Users |-> NoData]
    /\ files = [p \in Paths |-> NoFile]
    /\ update = NoUpdate

Init == PureIdle /\ SessionIdle

\* One update is handled at a time (the application is built without
\* concurrent_updates), so a step is one whole handler run of one user.
Next == \E u \in Users : Start(u) \/ ReceiveLink(u) \/ ReceiveImage(u) \/ Cancel(u)

Spec == Init /\ [][Next]_vars

\* ------------------------------------------ SpecScrape: scrape_dua alone

InitScrape ==
    /\ pc = "start"
    /\ response \in {[ok |-> TRUE, soup |-> s] : s \in Soups}
                    \cup {[ok |-> FALSE, soup |-> NoSoup]}
    /\ scraped = Raised
    /\ dua_lines = <<>>
    /\ bg_image = NoFile
    /\ prs_single = <<>>
    /\ prs_three = <<>>
    /\ SessionIdle

Scrape ==
    /\ pc = "start"
    /\ scraped' = scrape_dua(response)
    /\ pc' = "scraped"
    /\ UNCHANGED <<response, dua_lines, bg_image, prs_single, prs_three, sessionVars>>

NextScrape == Scrape

SpecScrape == InitScrape /\ [][NextScrape]_vars

\* ------------------------------------- SpecSlides: the two slide builders

LineTexts == { <<" ", "a">>, <<"b", " ">> }

\* Lines as scrape_dua builds them: both texts non-empty once stripped.
Lines ==
    { DuaLine(LineTexts_a, LineTexts_t) :
        LineTexts_a \in LineTexts, LineTexts_t \in LineTexts }
    \ { DuaLine(<<"b", " ">>, <<"b", " ">>) }

SomeFile == [exists |-> TRUE, photo |-> "photoA"]

InitSlides ==
    /\ pc = "start"
    /\ dua_lines \in SeqsUpTo(Lines, MaxLines)
    /\ bg_image \in {NoFile, SomeFile}
    /\ prs_single = <<>>
    /\ prs_three = <<>>
    /\ response = [ok |-> FALSE, soup |-> NoSoup]
    /\ scraped = Raised
    /\ SessionIdle

\* prs_single = create_pptx_single_line(dua_lines, title, image_path)
BuildSingle ==
    /\ pc = "start"
    /\ prs_single' = create_pptx_single_line(dua_lines, Dua, bg_image)
    /\ pc' = "single"
    /\ UNCHANGED <<response, scraped, dua_lines, bg_image, prs_three, sessionVars>>

\* prs_three = create_pptx_three_lines(dua_lines, title, image_path)
BuildThree ==
    /\ pc = "single"
    /\ prs_three' = create_pptx_three_lines(dua_lines, Dua, bg_image)
    /\ pc' = "done"
    /\ UNCHANGED <<response, scraped, dua_lines, bg_image, prs_single, sessionVars>>

NextSlides == BuildSingle \/ BuildThree

SpecSlides == InitSlides /\ [][NextSlides]_vars

\* ================================================================ claims

\* ----------------------------------------------------- scrape_dua claims

\* The original indices at which both trimmed texts are non-empty.
KeptIndices(soup) ==
    { i \in 1..Min(Len(soup.Ara), Len(soup.Tra)) :
        Strip(soup.Ara[i]) # <<>> /\ Strip(soup.Tra[i]) # <<>> }

\* C2 - Pairing alignment: scrape_dua returns exactly the pairs
\* (primary[i], translation[i]) of the original indices i < min(p, t) at which
\* both trimmed texts are non-empty, in increasing order of i: the pair of
\* index i is the line whose position is the number of kept indices up to i,
\* so a dropped index shifts no later pairing, nothing beyond min(p, t)
\* appears, and there are at most min(p, t) lines.
PairingAlignment ==
    (pc = "scraped" /\ response.ok) =>
        LET soup == response.soup
            kept == KeptIndices(soup)
            lines == scraped.dua_lines
        IN  /\ ~scraped.raised
            /\ Len(lines) = Cardinality(kept)
            /\ Len(lines) <= Min(Len(soup.Ara), Len(soup.Tra))
            /\ \A i \in kept :
                   lines[Cardinality({x \in kept : x <= i})] =
                       [arabic |-> Strip(soup.Ara[i]), translation |-> Strip(soup.Tra[i])]

\* Four primary and three translation elements, the second translation
\* whitespace only: index 2 is dropped, index 3 keeps its own translation,
\* index 4 never appears.
PairingAlignmentWitness ==
    /\ pc = "scraped"
    /\ response.ok
    /\ Len(response.soup.Ara) = 4
    /\ Len(response.soup.Tra) = 3
    /\ KeptIndices(response.soup) = {1, 3}
    /\ Strip(response.soup.Tra[3]) # Strip(response.soup.Tra[1])
    /\ Len(scraped.dua_lines) = 2
    /\ scraped.dua_lines[2].translation = Strip(response.soup.Tra[3])

\* C4 - Non-empty invariant: every line scrape_dua returns has a non-empty
\* trimmed arabic text and a non-empty trimmed translation text.
NonEmptyInvariant ==
    \A i \in 1..Len(scraped.dua_lines) :
        /\ Strip(scraped.dua_lines[i].arabic) # <<>>
        /\ Strip(scraped.dua_lines[i].translation) # <<>>

\* A page where a pair with an empty text was dropped and another was kept.
NonEmptyInvariantWitness ==
    /\ pc = "scraped"
    /\ response.ok
    /\ Len(scraped.dua_lines) >= 1
    /\ \E i \in 1..Min(Len(response.soup.Ara), Len(response.soup.Tra)) :
           /\ Strip(response.soup.Ara[i]) # <<>>
           /\ Strip(response.soup.Tra[i]) = <<>>

\* --------------------------------------------------- slide builder claims

\* The lines of one slide, read back from its two text boxes.
SlideLines(slide) ==
    [j \in 1..Len(slide.arabic_frame) |->
        [arabic |-> slide.arabic_frame[j].text,
         translation |-> slide.english_frame[j].text]]

RECURSIVE Flatten(_)
Flatten(slides) ==
    IF slides = <<>> THEN <<>> ELSE SlideLines(Head(slides)) \o Flatten(Tail(slides))

GroupSizes(slides) == [n \in 1..Len(slides) |-> Len(slides[n].arabic_frame)]

ElementCounts(slides) ==
    [n \in 1..Len(slides) |->
        Len(slides[n].arabic_frame) + Len(slides[n].english_frame)]

\* C1 - Pagination round-trip: in both styles, the lines of all slides read in
\* slide order are exactly the input line sequence: nothing reordered,
\* duplicated, padded in or lost.
PaginationRoundTrip ==
    /\ pc \in {"single", "done"} => Flatten(prs_single) = dua_lines
    /\ pc = "done" => Flatten(prs_three) = dua_lines

\* Seven lines, not all alike, on seven single slides and three grouped ones.
PaginationRoundTripWitness ==
    /\ pc = "done"
    /\ Len(dua_lines) = 7
    /\ dua_lines[3] # dua_lines[4]
    /\ dua_lines[6] # dua_lines[7]
    /\ Len(prs_single) = 7
    /\ Len(prs_three) = 3

\* C3 - Group size bound: with k = 1 (single) and k = 3 (grouped), every slide
\* holds between 1 and k lines, only the last slide may hold fewer than k, the
\* number of slides is ceil(len(L) / k), and an empty L gives no slide.
GroupSizeBound ==
    /\ pc \in {"single", "done"} =>
        /\ Len(prs_single) = Len(dua_lines)
        /\ \A n \in 1..Len(prs_single) : GroupSizes(prs_single)[n] = 1
    /\ pc = "done" =>
        /\ Len(prs_three) * 3 >= Len(dua_lines)
        /\ (Len(prs_three) - 1) * 3 < Len(dua_lines) \/ Len(prs_three) = 0
        /\ dua_lines = <<>> => prs_three = <<>>
        /\ \A n \in 1..Len(prs_three) :
               /\ GroupSizes(prs_three)[n] >= 1
               /\ GroupSizes(prs_three)[n] <= 3
               /\ n < Len(prs_three) => GroupSizes(prs_three)[n] = 3

\* Seven lines: grouped slides of 3, 3 and 1 lines.
GroupSizeBoundWitness ==
    /\ pc = "done"
    /\ Len(dua_lines) = 7
    /\ GroupSizes(prs_three) = <<3, 3, 1>>
    /\ GroupSizes(prs_single) = <<1, 1, 1, 1, 1, 1, 1>>

\* Slide n of a deck of group size k shows lines k*(n-1)+1 .. of the input:
\* paragraph j of each text box comes from line k*(n-1)+j, the arabic one
\* right-aligned and bold, the english one left-aligned and not bold.
PairedLayout(slides, k) ==
    \A n \in 1..Len(slides) :
        LET slide == slides[n]
            m == Len(slide.arabic_frame)
        IN  /\ Len(slide.english_frame) = m
            /\ k * (n - 1) + m <= Len(dua_lines)
            /\ \A j \in 1..m :
                   LET line == dua_lines[k * (n - 1) + j]
                   IN  /\ slide.arabic_frame[j].text = line.arabic
                       /\ slide.arabic_frame[j].alignment = "RIGHT"
                       /\ slide.arabic_frame[j].bold
                       /\ slide.english_frame[j].text = line.translation
                       /\ slide.english_frame[j].alignment = "LEFT"
                       /\ ~slide.english_frame[j].bold

TempFile(u) == <<"temp_bg_", u, ".jpg">>

SessionIsolation ==
    [][ LET u == update'.user
            own == [exists |-> TRUE, photo |-> update'.photo]
        IN  /\ \A v \in Users \ {u} :
                   /\ user_data'[v] = user_data[v]
                   /\ files'[TempFile(v)] = files[TempFile(v)]
                   /\ state'[v] = state[v]
            /\ \A n \in 1..Len(update'.documents) :
                   update'.documents[n].slides \in
                       { create_pptx_single_line(GetLines(user_data[u]),
                                                 GetTitle(user_data[u]), own),
                         create_pptx_three_lines(GetLines(user_data[u]),
                                                 GetTitle(user_data[u]), own) }
      ]_vars

\* One user was just sent both decks while the other user, with other stored
\* lines and another photo in its temporary file, waits in WAITING_IMAGE.
SessionIsolationWitness ==
    /\ update.handler = "receive_image"
    /\ Len(update.documents) = 2
    /\ update.documents[1].slides # <<>>
    /\ \E v \in Users \ {update.user} :
           /\ state[v] = WAITING_IMAGE
           /\ GetLines(user_data[v]) # <<>>
           /\ Len(GetLines(user_data[v])) # Len(update.documents[1].slides)
           /\ files[TempFile(v)].exists
           /\ files[TempFile(v)].photo # update.photo

\* C9 - Session invariant: whenever a session is in WAITING_IMAGE its
\* user_data holds a non-empty dua_lines and its title.
SessionInvariant ==
    \A u \in Users :
        state[u] = WAITING_IMAGE =>
            /\ {"dua_lines", "title"} \subseteq user_data[u].keys
            /\ user_data[u].dua_lines # <<>>

\* C10 - Temporary file cleanup: whenever receive_image has returned, the
\* temporary background file of its user does not exist.
TempFileCleanup ==
    update.handler = "receive_image" => ~files[TempFile(update.user)].exists

====
